---- MODULE Spec2Model ----
(***************************************************************************)
(* Model of examples/models/llama2/quantize.py: the quantization kernels   *)
(* (qparam choosers, affine quantize/dequantize, int4 packing) as          *)
(* operators applied by one-call actions, and the quantization handlers    *)
(* (create_quantized_state_dict, convert_for_runtime, load_state_dict) as  *)
(* a state machine over a module tree.                                     *)
(*                                                                         *)
(* Numbers.  A floating-point value is modelled by the real number it      *)
(* denotes, in exact arithmetic: an integer count of units of 1.25e-6 (an  *)
(* eighth of 1e-5), or a fraction [n, d] of such units (d > 0).  In these  *)
(* units 1e-5 is 8 and the machine epsilon of 32-bit float, 2^-23, is      *)
(* 3125/32768.  The rounding error of the float formats themselves and of  *)
(* the casts between them is not modelled.  A tensor is [shape, data]      *)
(* with data the row-major (contiguous) sequence of its elements.          *)
(***************************************************************************)
EXTENDS Integers, Sequences, FiniteSets, TLC

VARIABLES call, handler, mod, original, state_dict, pc, last, outcome

vars == <<call, handler, mod, original, state_dict, pc, last, outcome>>

-----------------------------------------------------------------------------
(* Bounds of the model                                                     *)

\* pack/unpack: the trailing dimension of the int8 array is at most this
MaxPackLen == 2

\* a drawn weight matrix has at most this many rows and this many elements
MaxRows == 2

MaxNumel == 4

\* a drawn activation has at most this many elements
MaxTokenNumel == 3

\* group sizes are drawn from 0..MaxGroupSize
MaxGroupSize == 4

\* children of the root of a model, and of a container below the root
MaxChildren == 2

MaxInnerChildren == 1

-----------------------------------------------------------------------------
(* Generic helpers                                                         *)

Min2(a, b) == IF a <= b THEN a ELSE b

Max2(a, b) == IF a >= b THEN a ELSE b

Abs(a) == IF a < 0 THEN -a ELSE a

RECURSIVE Prod(_)
Prod(s) == IF Len(s) = 0 THEN 1 ELSE Head(s) * Prod(Tail(s))

\* size[:-1]
Front(s) == SubSeq(s, 1, Len(s) - 1)

Last(s) == s[Len(s)]

-----------------------------------------------------------------------------
(* 8-bit signed integer arithmetic (torch.int8)                            *)

\* the value of an int8 whose unsigned bit pattern is u (0..255)
Int8OfBits(u) == IF u >= 128 THEN u - 256 ELSE u

\* the unsigned bit pattern of an int8
BitsOfInt8(x) == x % 256

RECURSIVE BitOr(_, _, _)
BitOr(a, b, nbits) ==
    IF nbits = 0 THEN 0
    ELSE Max2(a % 2, b % 2) + 2 * BitOr(a \div 2, b \div 2, nbits - 1)

\* x << 4 on int8: the high bits are shifted out
Int8Shl4(x) == Int8OfBits((BitsOfInt8(x) * 16) % 256)

\* x | y on int8
Int8Or(x, y) == Int8OfBits(BitOr(BitsOfInt8(x), BitsOfInt8(y), 8))

\* x >> 4 on int8: arithmetic shift, the sign bit is replicated
Int8Sar4(x) == Int8OfBits(BitOr((BitsOfInt8(x) \div 16),
                                IF x < 0 THEN 240 ELSE 0, 8))

\* x & 0b1111 on int8
Int8And15(x) == BitsOfInt8(x) % 16

-----------------------------------------------------------------------------
(* 4-bit packing, quantize.py 581-613                                      *)

ShapeError == [error |-> "shape"]

\* down_size(size): asserts size[-1] % 2 == 0 (callers test it first)
down_size(size) == Front(size) \o <<Last(size) \div 2>>

up_size(size) == Front(size) \o <<Last(size) * 2>>

\* int8_data[::2] << 4 | int8_data[1::2], for one pair
pack_pair(first, second) == Int8Or(Int8Shl4(first), second)

pack_int4_from_int8(int8_data) ==
    IF Last(int8_data.shape) % 2 # 0 THEN ShapeError
    ELSE [shape |-> down_size(int8_data.shape),
          data  |-> [i \in 1..(Len(int8_data.data) \div 2) |->
                        pack_pair(int8_data.data[2 * i - 1], int8_data.data[2 * i])]]

\* torch.stack([first_elements, second_elements], dim=-1).view(up_size(shape))
unpack_int4_to_int8(int8_data) ==
    [shape |-> up_size(int8_data.shape),
     data  |-> [i \in 1..(2 * Len(int8_data.data)) |->
                  IF i % 2 = 1 THEN Int8Sar4(int8_data.data[(i + 1) \div 2])
                  ELSE Int8And15(int8_data.data[i \div 2])]]

-----------------------------------------------------------------------------
(* Exact arithmetic on fractions [n, d], d > 0                             *)

Frac(n, d) == [n |-> n, d |-> d]

FLeq(a, b) == a.n * b.d <= b.n * a.d

FLt(a, b) == a.n * b.d < b.n * a.d

FEq(a, b) == a.n * b.d = b.n * a.d

FMax(a, b) == IF FLeq(b, a) THEN a ELSE b

\* torch.round of the fraction n/d (d > 0): to nearest, halves to even
RoundHalfEven(n, d) ==
    LET q == n \div d
        r == n - q * d
    IN  IF 2 * r < d THEN q
        ELSE IF 2 * r > d THEN q + 1
        ELSE IF q % 2 = 0 THEN q ELSE q + 1

\* torch.clamp(v, lo, hi) == min(max(v, lo), hi)
Clamp(v, lo, hi) == Min2(Max2(v, lo), hi)

\* 2 ** k
RECURSIVE Pow2(_)
Pow2(k) == IF k = 0 THEN 1 ELSE 2 * Pow2(k - 1)

SeqMaxOf(s) == CHOOSE m \in {s[i] : i \in 1..Len(s)} : \A i \in 1..Len(s) : s[i] <= m

SeqMinOf(s) == CHOOSE m \in {s[i] : i \in 1..Len(s)} : \A i \in 1..Len(s) : m <= s[i]

\* torch.finfo(torch.float32).eps = 2^-23, in units of 1.25e-6:
\* 2^-23 * 800000 = 3125 / 32768
Eps == Frac(3125, 32768)

\* Optional[int]: None is the empty sequence, a value g is <<g>>
None == <<>>

Some(g) == <<g>>

AssertError == [error |-> "assert"]

IsError(r) == "error" \in DOMAIN r

-----------------------------------------------------------------------------
(* Per-channel / per-group weight quantization, quantize.py 40-131         *)

\* the float that is not a number; it stands outside the values of the model
\* and takes part in no arithmetic: every operator that can meet it says
\* what the float operation makes of it
NaN == 2147483647

\* torch.isnan(block).sum() # 0
HasNaN(block) == \E i \in 1..Len(block) : block[i] = NaN

\* a scale that is NaN: amin/amax, torch.min/max, the division and clamp all
\* propagate NaN
NaNScale == Frac(0, 0)

\* F.pad(x, (0, padding)) on a 2-D tensor: zeros appended to every row
pad_rows(x, padding) ==
    LET rows == x.shape[1]
        cols == x.shape[2]
        wide == cols + padding
    IN  [shape |-> <<rows, wide>>,
         data  |-> [i \in 1..(rows * wide) |->
                      LET r == (i - 1) \div wide
                          c == (i - 1) % wide
                      IN  IF c < cols THEN x.data[r * cols + c + 1] ELSE 0]]

\* the g-th consecutive block of `items` elements of contiguous data:
\* row g of data.view(-1, items)
group_of(data, g, items) == SubSeq(data, (g - 1) * items + 1, g * items)

\* quant[:, :x_shape_1] on a 2-D tensor
strip_cols(q, x_shape_1) ==
    LET rows == q.shape[1]
        wide == q.shape[2]
    IN  [shape |-> <<rows, x_shape_1>>,
         data  |-> [i \in 1..(rows * x_shape_1) |->
                      q.data[((i - 1) \div x_shape_1) * wide + ((i - 1) % x_shape_1) + 1]]]

\* max(-min(min_val, 0), max(max_val, 0)) of one block
max_abs_of(block) ==
    LET min_val_neg == Min2(SeqMinOf(block), 0)
        max_val_pos == Max2(SeqMaxOf(block), 0)
    IN  Max2(-min_val_neg, max_val_pos)

\* a plausible slip: the divisor is the whole range, not half of it
symmetric_scale_full_range(max_val_abs, range) ==
    FMax(Frac(max_val_abs, range), Eps)

\* a plausible slip: the floor under the scale is a sixteenth of eps
symmetric_scale_low_floor(max_val_abs, range) ==
    FMax(Frac(2 * max_val_abs, range), Frac(Eps.n, 16 * Eps.d))

\* max_val_abs / (float(quant_max - quant_min) / 2), clamped below by eps
symmetric_scale(max_val_abs, range) ==
    FMax(Frac(2 * max_val_abs, range), Eps)

\* round(x / scale + zero_point) clamped to [quant_min, quant_max]
affine_quantize(x, scale, zero_point, quant_min, quant_max) ==
    Clamp(RoundHalfEven(x * scale.d + zero_point * scale.n, scale.n),
          quant_min, quant_max)

\* the statistics of group g of x viewed as (-1, items); a plausible slip
\* takes them over the whole row the group lies in
group_block_whole_row(x, g, items) ==
    LET per_row == x.shape[2] \div items
    IN  group_of(x.data, (g - 1) \div per_row + 1, x.shape[2])

group_block(x, g, items) == group_of(x.data, g, items)

\* .to(torch.int8) of an integer-valued float.  Out of [-128, 127] the
\* conversion is undefined; the builds either wrap or saturate.
to_int8(v, cast) ==
    IF v >= -128 /\ v <= 127 THEN v
    ELSE IF cast = "wrap" THEN Int8OfBits(v % 256)
    ELSE Clamp(v, -128, 127)

CastModes == {"wrap", "saturate"}

\* .to(torch.int8) of NaN (clamp leaves NaN as it is): undefined as well; a
\* truncating build gives 0, a saturating one -128
nan_to_int8(cast) == IF cast = "wrap" THEN 0 ELSE -128

\* there is no check for NaN: every element of a group that holds a NaN is
\* divided by the NaN scale of the group
dynamically_quantize_per_channel(x, quant_min, quant_max, group_size, enable_non_multiple_groups, cast) ==
    LET x_shape_1 == x.shape[2]
        whole_row == group_size = None \/ group_size = Some(0)
        gs        == IF whole_row THEN 0 ELSE group_size[1]
        multiple  == ~whole_row /\ ((x_shape_1 % gs) = 0 \/ ~enable_non_multiple_groups)
    IN  IF multiple /\ (x_shape_1 % gs) # 0 THEN AssertError
        ELSE
        LET items == IF whole_row THEN x_shape_1 ELSE gs
            padding == IF whole_row \/ multiple THEN 0 ELSE gs - (x_shape_1 % gs)
            xp == pad_rows(x, padding)
            rows == xp.shape[1]
            per_row == xp.shape[2] \div items
            ngroups == rows * per_row
            scales == [g \in 1..ngroups |->
                         IF HasNaN(group_block(xp, g, items)) THEN NaNScale
                         ELSE symmetric_scale(max_abs_of(group_block(xp, g, items)),
                                              quant_max - quant_min)]
            zero_points == [g \in 1..ngroups |-> 0]
            quant == [shape |-> xp.shape,
                      data  |-> [i \in 1..Len(xp.data) |->
                                   LET g == (i - 1) \div items + 1
                                   IN  IF scales[g] = NaNScale THEN nan_to_int8(cast)
                                       ELSE affine_quantize(xp.data[i], scales[g],
                                               zero_points[g], quant_min, quant_max)]]
        IN  [quant       |-> strip_cols(quant, x_shape_1),
             scales      |-> [shape |-> <<rows, per_row>>, data |-> scales],
             zero_points |-> [shape |-> <<rows, per_row>>, data |-> zero_points]]

-----------------------------------------------------------------------------
(* Group-wise symmetric quantization, quantize.py 379-578                  *)

get_group_qparams_symmetric(w, n_bit, groupsize) ==
    LET gs == IF groupsize > Last(w.shape) THEN Last(w.shape) ELSE groupsize
    IN  IF ~(gs > 1) THEN AssertError
        ELSE IF Last(w.shape) % gs # 0 THEN AssertError
        ELSE IF Len(w.shape) # 2 THEN AssertError
        ELSE IF HasNaN(w.data) THEN AssertError
        ELSE
        LET ngroups == Len(w.data) \div gs
            max_int == Pow2(n_bit - 1) - 1
            min_int == -Pow2(n_bit - 1)
        IN  [scales |-> [shape |-> <<w.shape[1], ngroups \div w.shape[1]>>,
                         data  |-> [g \in 1..ngroups |->
                                      symmetric_scale(max_abs_of(group_block(w, g, gs)),
                                                      max_int - min_int)]],
             zeros  |-> [shape |-> <<w.shape[1], ngroups \div w.shape[1]>>,
                         data  |-> [g \in 1..ngroups |-> 0]]]

\* "needed for GPTQ single column quantize": the narrowing shared by
\* quantize_per_channel_group and dequantize_per_channel_group
narrowed_group_size(input, scales, group_size) ==
    IF group_size > Last(input.shape) /\ Last(scales.shape) = 1
    THEN Last(input.shape) ELSE group_size

BroadcastError == [error |-> "broadcast"]

\* broadcasting of two sizes along one dimension; 0 when they do not broadcast
broadcast_dim(a, b) ==
    IF a = b THEN a
    ELSE IF a = 1 THEN b
    ELSE IF b = 1 THEN a
    ELSE 0

\* rows of (ngroups, group_size) op (n1, 1) op (n2, 1); 0 when not broadcastable
grouped_rows(ngroups, n1, n2) ==
    IF broadcast_dim(ngroups, n1) = 0 THEN 0
    ELSE broadcast_dim(broadcast_dim(ngroups, n1), n2)

\* the element of a reshape(-1, 1) parameter that broadcasting pairs with group g
param_of(data, g, ngroups) == IF Len(data) = ngroups THEN data[g] ELSE data[1]

quantize_per_channel_group(input, scales, zero_points, quant_min, quant_max, group_size, cast) ==
    IF ~(group_size > 1) THEN AssertError
    ELSE
    LET gs == narrowed_group_size(input, scales, group_size)
    IN  IF Last(input.shape) % gs # 0 THEN AssertError
        ELSE IF Len(input.shape) # 2 THEN AssertError
        ELSE IF HasNaN(input.data) THEN AssertError
        ELSE
        LET ngroups == Len(input.data) \div gs
            rows == grouped_rows(ngroups, Len(scales.data), Len(zero_points.data))
        IN  IF rows = 0 THEN BroadcastError
            ELSE IF rows # ngroups THEN ShapeError   \* reshape_as(input)
            ELSE [shape |-> input.shape,
                  data  |-> [i \in 1..Len(input.data) |->
                               LET g == (i - 1) \div gs + 1
                               IN  to_int8(affine_quantize(input.data[i],
                                               param_of(scales.data, g, ngroups),
                                               param_of(zero_points.data, g, ngroups),
                                               quant_min, quant_max), cast)]]

group_quantize_tensor_symmetric(w, n_bit, group_size) ==
    LET qparams == get_group_qparams_symmetric(w, n_bit, group_size)
    IN  IF IsError(qparams) THEN qparams
        ELSE
        LET max_int == Pow2(4 - 1) - 1
            min_int == -Pow2(4 - 1)
            w_int8 == quantize_per_channel_group(w, qparams.scales, qparams.zeros,
                                                 min_int, max_int, group_size, "wrap")
        IN  IF IsError(w_int8) THEN w_int8
            ELSE [w_int8 |-> w_int8, scales |-> qparams.scales,
                  zeros |-> qparams.zeros]

\* (q - zero_point) * scale, as a fraction
affine_dequantize(q, scale, zero_point) ==
    Frac((q - zero_point) * scale.n, scale.d)

dequantize_per_channel_group(w_int8, scales, zero_points, quant_min, quant_max, group_size) ==
    IF ~(group_size > 1) THEN AssertError
    ELSE
    LET gs == narrowed_group_size(w_int8, scales, group_size)
    IN  IF Last(w_int8.shape) % gs # 0 THEN AssertError
        ELSE IF Len(w_int8.shape) # 2 THEN AssertError
        ELSE
        LET ngroups == Len(w_int8.data) \div gs
            rows == grouped_rows(ngroups, Len(zero_points.data), Len(scales.data))
        IN  IF rows = 0 THEN BroadcastError
            ELSE IF rows # ngroups THEN ShapeError   \* reshape_as(w_int8)
            ELSE [shape |-> w_int8.shape,
                  data  |-> [i \in 1..Len(w_int8.data) |->
                               LET g == (i - 1) \div gs + 1
                               IN  affine_dequantize(w_int8.data[i],
                                       param_of(scales.data, g, ngroups),
                                       param_of(zero_points.data, g, ngroups))]]

-----------------------------------------------------------------------------
(* Broadcasting of N-dimensional tensors (torch semantics, no empty dims)  *)

\* a shape left-padded with 1s to n dimensions
pad_shape(s, n) ==
    [i \in 1..n |-> IF i <= n - Len(s) THEN 1 ELSE s[i - (n - Len(s))]]

\* the broadcast of two shapes; a 0 marks a dimension that does not broadcast
broadcast_shape(s1, s2) ==
    LET n == Max2(Len(s1), Len(s2))
        a == pad_shape(s1, n)
        b == pad_shape(s2, n)
    IN  [i \in 1..n |-> broadcast_dim(a[i], b[i])]

broadcastable(s1, s2) ==
    \A i \in 1..Max2(Len(s1), Len(s2)) : broadcast_shape(s1, s2)[i] # 0

stride(shape, j) == Prod(SubSeq(shape, j + 1, Len(shape)))

RECURSIVE operand_offset(_, _, _, _)
operand_offset(k, out, p, j) ==
    IF j > Len(out) THEN 0
    ELSE (IF p[j] = 1 THEN 0 ELSE ((k \div stride(out, j)) % out[j]) * stride(p, j))
         + operand_offset(k, out, p, j + 1)

\* the element of tensor t that broadcasting to shape `out` pairs with the
\* k-th (1-based, row-major) element of the result
broadcast_elem(t, out, k) ==
    t.data[1 + operand_offset(k - 1, out, pad_shape(t.shape, Len(out)), 1)]

-----------------------------------------------------------------------------
(* Per-token qparam choosers, quantize.py 145-258                          *)

UnsupportedDtype == [error |-> "unsupported_dtype"]

\* the shape (M1, ..., Mn, 1) of a keepdim reduction over the last dimension
keepdim_shape(shape) == Front(shape) \o <<1>>

\* token t of an input (M1, ..., Mn, N): its N consecutive elements
token_of(input, t) == group_of(input.data, t, Last(input.shape))

num_tokens_of(input) == Prod(Front(input.shape))

\* 1e-5 in units of 1.25e-6
ClampMin == Frac(8, 1)

\* scales.clamp(min=1e-5).div(quant_max)
\* a plausible slip: the largest magnitude is not clamped below
per_token_scale_unclamped(amax, quant_max) == Frac(amax, quant_max)

per_token_scale(amax, quant_max) ==
    LET clamped == FMax(Frac(amax, 1), ClampMin)
    IN  Frac(clamped.n, clamped.d * quant_max)

choose_qparams_per_token(input, dtype) ==
    IF dtype # "int8" THEN UnsupportedDtype
    ELSE
    LET n_bits == 8
        quant_max == Pow2(n_bits - 1) - 1
        ntok == num_tokens_of(input)
    IN  [scales      |-> [shape |-> keepdim_shape(input.shape),
                          data  |-> [t \in 1..ntok |->
                                       per_token_scale(
                                           SeqMaxOf([i \in 1..Last(input.shape) |->
                                                       Abs(token_of(input, t)[i])]),
                                           quant_max)]],
         zero_points |-> [shape |-> keepdim_shape(input.shape),
                          data  |-> [t \in 1..ntok |-> 0]]]

\* the Meta implementation: no dtype is tested; the two tensors are
\* torch.empty((1, input.size(-1))) and hold no data
choose_qparams_per_token_meta(input, dtype) ==
    LET size == <<1, Last(input.shape)>>
    IN  [scales      |-> [shape |-> size, data |-> <<>>],
         zero_points |-> [shape |-> size, data |-> <<>>]]

Qmin == -128

Qmax == 127

\* (max_val_pos - min_val_neg) / float(qmax - qmin), clamped below by eps
asymmetric_scale(min_val_neg, max_val_pos) ==
    FMax(Frac(max_val_pos - min_val_neg, Qmax - Qmin), Eps)

\* torch.clamp(zero_point, qmin, qmax).round() of the fraction zp
clamp_round(zp, lo, hi) ==
    IF FLt(zp, Frac(lo, 1)) THEN lo
    ELSE IF FLt(Frac(hi, 1), zp) THEN hi
    ELSE RoundHalfEven(zp.n, zp.d)

\* a plausible slip: the comparison picks the other candidate
asymmetric_zero_point_swapped(min_val_neg, max_val_pos) ==
    LET scale == asymmetric_scale(min_val_neg, max_val_pos)
        descaled_min == Frac(min_val_neg * scale.d, scale.n)
        descaled_max == Frac(max_val_pos * scale.d, scale.n)
        error_sum == Frac((Qmin + Qmax) * scale.n + descaled_min.n + descaled_max.n,
                          scale.n)
        from_min == Frac(Qmin * scale.n - descaled_min.n, scale.n)
        from_max == Frac(Qmax * scale.n - descaled_max.n, scale.n)
        zero_point == IF error_sum.n > 0 THEN from_max ELSE from_min
    IN  clamp_round(zero_point, Qmin, Qmax)

asymmetric_zero_point(min_val_neg, max_val_pos) ==
    LET scale == asymmetric_scale(min_val_neg, max_val_pos)
        \* descaled_min = min_val_neg / scale, descaled_max = max_val_pos / scale
        descaled_min == Frac(min_val_neg * scale.d, scale.n)
        descaled_max == Frac(max_val_pos * scale.d, scale.n)
        \* zero_point_from_min_error + zero_point_from_max_error
        error_sum == Frac((Qmin + Qmax) * scale.n + descaled_min.n + descaled_max.n,
                          scale.n)
        from_min == Frac(Qmin * scale.n - descaled_min.n, scale.n)
        from_max == Frac(Qmax * scale.n - descaled_max.n, scale.n)
        zero_point == IF error_sum.n > 0 THEN from_min ELSE from_max
    IN  clamp_round(zero_point, Qmin, Qmax)

choose_qparams_per_token_asymmetric(input, dtype) ==
    LET ntok == num_tokens_of(input)
        min_val_neg(t) == Min2(SeqMinOf(token_of(input, t)), 0)
        max_val_pos(t) == Max2(SeqMaxOf(token_of(input, t)), 0)
    IN  [scales      |-> [shape |-> keepdim_shape(input.shape),
                          data  |-> [t \in 1..ntok |->
                                       asymmetric_scale(min_val_neg(t), max_val_pos(t))]],
         zero_points |-> [shape |-> keepdim_shape(input.shape),
                          data  |-> [t \in 1..ntok |->
                                       asymmetric_zero_point(min_val_neg(t),
                                                             max_val_pos(t))]]]

choose_qparams_per_token_asymmetric_meta(input, dtype) ==
    LET size == <<1, Last(input.shape)>>
    IN  [scales      |-> [shape |-> size, data |-> <<>>],
         zero_points |-> [shape |-> size, data |-> <<>>]]

-----------------------------------------------------------------------------
(* Per-token affine quantize / dequantize, quantize.py 261-376             *)

BoundsError == [error |-> "bounds"]

DimMismatchError == [error |-> "dim_mismatch"]

Dtypes == {"int8", "uint8"}

dtype_lower(dtype) == IF dtype = "int8" THEN -128 ELSE 0

dtype_upper(dtype) == IF dtype = "int8" THEN 127 ELSE 255

\* torch.ao.quantization.fx._decomposed._quant_min_max_bounds_check is
\* imported, not defined, by quantize.py; it is taken as the specification
\* describes it (4.2): quant_min <= quant_max, both representable in dtype.
quant_min_max_bounds_check(quant_min, quant_max, dtype) ==
    /\ quant_min <= quant_max
    /\ quant_min >= dtype_lower(dtype)
    /\ quant_max <= dtype_upper(dtype)

\* _per_token_quant_qparam_dim_check: TRUE when both assertions pass
per_token_quant_qparam_dim_check(input, scales, zero_points) ==
    /\ num_tokens_of(input) = Len(scales.data)
    /\ num_tokens_of(input) = Len(zero_points.data)

quantize_per_token(input, scales, zero_points, quant_min, quant_max, dtype) ==
    IF ~quant_min_max_bounds_check(quant_min, quant_max, dtype) THEN BoundsError
    ELSE IF ~per_token_quant_qparam_dim_check(input, scales, zero_points)
    THEN DimMismatchError
    ELSE IF ~broadcastable(input.shape, scales.shape) THEN BroadcastError
    ELSE IF ~broadcastable(broadcast_shape(input.shape, scales.shape),
                           zero_points.shape) THEN BroadcastError
    ELSE
    LET out == broadcast_shape(broadcast_shape(input.shape, scales.shape),
                               zero_points.shape)
    IN  [shape |-> out,
         data  |-> [k \in 1..Prod(out) |->
                      affine_quantize(broadcast_elem(input, out, k),
                                      broadcast_elem(scales, out, k),
                                      broadcast_elem(zero_points, out, k),
                                      quant_min, quant_max)]]

\* input - zero_points, then .to(output_dtype) * scales: no check of any kind
dequantize_per_token(input, scales, zero_points, quant_min, quant_max, dtype) ==
    IF ~broadcastable(input.shape, zero_points.shape) THEN BroadcastError
    ELSE IF ~broadcastable(broadcast_shape(input.shape, zero_points.shape),
                           scales.shape) THEN BroadcastError
    ELSE
    LET out == broadcast_shape(broadcast_shape(input.shape, zero_points.shape),
                               scales.shape)
    IN  [shape |-> out,
         data  |-> [k \in 1..Prod(out) |->
                      affine_dequantize(broadcast_elem(input, out, k),
                                        broadcast_elem(scales, out, k),
                                        broadcast_elem(zero_points, out, k))]]

-----------------------------------------------------------------------------
(* The inputs the kernels are applied to                                   *)

\* the shapes of the given rank with at most `budget` elements, no empty dim
RECURSIVE ShapesOf(_, _)
ShapesOf(rank, budget) ==
    IF rank = 0 THEN {<<>>}
    ELSE UNION {{<<d>> \o s : s \in ShapesOf(rank - 1, budget \div d)} :
                d \in 1..budget}

TensorsOver(shapes, values) ==
    UNION {{[shape |-> sh, data |-> d] : d \in [1..Prod(sh) -> values]} :
           sh \in shapes}

\* a tensor of the given shape with every element v
Filled(sh, v) == [shape |-> sh, data |-> [i \in 1..Prod(sh) |-> v]]

\* weights, in units of 1.25e-6
WeightValues == {-60, 0, 7, 45}

WeightShapes == {sh \in ShapesOf(2, MaxNumel) : sh[1] <= MaxRows}

Weights == TensorsOver(WeightShapes, WeightValues)

\* activations, in units of 1.25e-6: 3 lies under 1e-5 and under eps * 255
TokenValues == {-1000, 0, 3, 3000}

\* the activation of the specification's example, shape (2, 3, 8)
ExampleShape == <<2, 3, 8>>

TokenShapes ==
    ShapesOf(1, MaxTokenNumel) \cup ShapesOf(2, MaxTokenNumel)
        \cup ShapesOf(3, MaxTokenNumel)

TokenInputs ==
    TensorsOver(TokenShapes, TokenValues)
        \cup {Filled(ExampleShape, v) : v \in TokenValues}

PackInputs == TensorsOver({<<n>> : n \in 1..MaxPackLen}, -8..7)

GroupSizes == 0..MaxGroupSize

QuantRanges == {<<-8, 7>>, <<-128, 127>>}

NBits == {3, 4, 8}

NoCall == [op |-> "none"]

NoHandler == [cls |-> "none"]

EmptyModule == [kind |-> "container", children |-> <<>>]

\* no dictionary has been created
NoStateDict == [created |-> FALSE]

\* the kernels are pure: a behaviour is one call from the initial state,
\* or one call followed by a call on what it returned
Init ==
    /\ call = NoCall
    /\ handler = NoHandler
    /\ mod = EmptyModule
    /\ original = EmptyModule
    /\ state_dict = NoStateDict
    /\ pc = "kernels"
    /\ last = "none"
    /\ outcome = "none"

handler_vars == <<handler, mod, original, state_dict, pc, last, outcome>>

PackInt4FromInt8 ==
    /\ call = NoCall
    /\ \E x \in PackInputs :
          call' = [op |-> "pack_int4_from_int8", int8_data |-> x,
                   ret |-> pack_int4_from_int8(x)]
    /\ UNCHANGED handler_vars

\* unpack applied to what pack returned
UnpackInt4ToInt8 ==
    /\ call.op = "pack_int4_from_int8"
    /\ ~IsError(call.ret)
    /\ call' = [op |-> "unpack_int4_to_int8", int8_data |-> call.ret,
                ret |-> unpack_int4_to_int8(call.ret), packed_from |-> call.int8_data]
    /\ UNCHANGED handler_vars

\* scale / zero-point arguments of the per-token operations: every element
\* the same, in one of the shapes a caller can pass
ParamShapes == {<<1>>, <<5>>, <<2, 1>>, <<2, 3, 1>>, <<5, 1, 1, 1>>}

ScaleValues == {Frac(1000, 3)}

ZeroPointValues == {0, 3}

\* (quant_min, quant_max) arguments: in range, reversed, and too wide for int8
CheckedRanges == {<<-8, 7>>, <<7, -8>>, <<-129, 127>>, <<0, 255>>}

ChooseQparamsPerToken ==
    /\ call = NoCall
    /\ \E input \in TokenInputs, dtype \in Dtypes :
          call' = [op |-> "choose_qparams_per_token", input |-> input,
                   dtype |-> dtype, ret |-> choose_qparams_per_token(input, dtype)]
    /\ UNCHANGED handler_vars

ChooseQparamsPerTokenAsymmetric ==
    /\ call = NoCall
    /\ \E input \in TokenInputs, dtype \in Dtypes :
          call' = [op |-> "choose_qparams_per_token_asymmetric", input |-> input,
                   dtype |-> dtype,
                   ret |-> choose_qparams_per_token_asymmetric(input, dtype)]
    /\ UNCHANGED handler_vars

\* the Meta implementation of the operator called with the arguments the
\* real one was called with
ChooseQparamsPerTokenMeta ==
    /\ call.op = "choose_qparams_per_token"
    /\ "meta" \notin DOMAIN call
    /\ call' = call @@ [meta |-> choose_qparams_per_token_meta(call.input, call.dtype)]
    /\ UNCHANGED handler_vars

ChooseQparamsPerTokenAsymmetricMeta ==
    /\ call.op = "choose_qparams_per_token_asymmetric"
    /\ "meta" \notin DOMAIN call
    /\ call' = call @@ [meta |-> choose_qparams_per_token_asymmetric_meta(
                                     call.input, call.dtype)]
    /\ UNCHANGED handler_vars

\* the activations the per-token quantize / dequantize are applied to
QuantTokenInputs ==
    {Filled(sh, v) : sh \in ShapesOf(3, MaxTokenNumel) \cup {ExampleShape},
                     v \in {-1000}}

QuantizePerToken ==
    /\ call = NoCall
    /\ \E input \in QuantTokenInputs, ssh \in ParamShapes, zsh \in ParamShapes,
          sv \in ScaleValues, zv \in ZeroPointValues, r \in CheckedRanges,
          dtype \in Dtypes :
          call' = [op |-> "quantize_per_token", input |-> input,
                   scales |-> Filled(ssh, sv), zero_points |-> Filled(zsh, zv),
                   quant_min |-> r[1], quant_max |-> r[2], dtype |-> dtype,
                   ret |-> quantize_per_token(input, Filled(ssh, sv), Filled(zsh, zv),
                                              r[1], r[2], dtype)]
    /\ UNCHANGED handler_vars

\* quantized activations: int8 values
QuantizedTokenInputs ==
    {Filled(sh, v) : sh \in ShapesOf(3, MaxTokenNumel) \cup {ExampleShape},
                     v \in {5}}

DequantizePerToken ==
    /\ call = NoCall
    /\ \E input \in QuantizedTokenInputs, ssh \in ParamShapes, zsh \in ParamShapes,
          sv \in ScaleValues, zv \in ZeroPointValues, r \in CheckedRanges,
          dtype \in Dtypes :
          call' = [op |-> "dequantize_per_token", input |-> input,
                   scales |-> Filled(ssh, sv), zero_points |-> Filled(zsh, zv),
                   quant_min |-> r[1], quant_max |-> r[2], dtype |-> dtype,
                   ret |-> dequantize_per_token(input, Filled(ssh, sv), Filled(zsh, zv),
                                                r[1], r[2], dtype)]
    /\ UNCHANGED handler_vars

OptGroupSizes == {None} \cup {Some(g) : g \in GroupSizes}

DynamicallyQuantizePerChannel ==
    /\ call = NoCall
    /\ \E x \in Weights, r \in QuantRanges, group_size \in OptGroupSizes,
          enable \in BOOLEAN :
          call' = [op |-> "dynamically_quantize_per_channel", x |-> x,
                   quant_min |-> r[1], quant_max |-> r[2], group_size |-> group_size,
                   enable_non_multiple_groups |-> enable,
                   ret |-> dynamically_quantize_per_channel(x, r[1], r[2], group_size,
                                                            enable, "wrap")]
    /\ UNCHANGED handler_vars

\* x with the element at (1-based, row-major) position k set to v
with_element(x, k, v) == [x EXCEPT !.data[k] = v]

\* a second call on a weight that differs from the first one in one element
\* (a change of several elements of a group is a sequence of such changes);
\* made for the int8 range with padding enabled, as the handlers call it
DynamicallyQuantizePerChannelChanged ==
    /\ call.op = "dynamically_quantize_per_channel"
    /\ "changed_at" \notin DOMAIN call
    /\ "nan_at" \notin DOMAIN call
    /\ call.quant_max = 127
    /\ call.enable_non_multiple_groups
    /\ ~IsError(call.ret)
    /\ \E k \in 1..Len(call.x.data) : \E v \in WeightValues \ {call.x.data[k]} :
          call' = [call EXCEPT !.x = with_element(call.x, k, v),
                               !.ret = dynamically_quantize_per_channel(
                                           with_element(call.x, k, v), call.quant_min,
                                           call.quant_max, call.group_size,
                                           call.enable_non_multiple_groups, "wrap")]
                  @@ [changed_at |-> k, first_x |-> call.x, first_ret |-> call.ret]
    /\ UNCHANGED handler_vars

GetGroupQparamsSymmetric ==
    /\ call = NoCall
    /\ \E w \in Weights, n_bit \in NBits, groupsize \in GroupSizes :
          call' = [op |-> "get_group_qparams_symmetric", w |-> w, n_bit |-> n_bit,
                   groupsize |-> groupsize,
                   ret |-> get_group_qparams_symmetric(w, n_bit, groupsize)]
    /\ UNCHANGED handler_vars

\* the same second call for get_group_qparams_symmetric, made for n_bit = 4
GetGroupQparamsSymmetricChanged ==
    /\ call.op = "get_group_qparams_symmetric"
    /\ "changed_at" \notin DOMAIN call
    /\ "nan_at" \notin DOMAIN call
    /\ call.n_bit = 4
    /\ ~IsError(call.ret)
    /\ \E k \in 1..Len(call.w.data) : \E v \in WeightValues \ {call.w.data[k]} :
          call' = [call EXCEPT !.w = with_element(call.w, k, v),
                               !.ret = get_group_qparams_symmetric(
                                           with_element(call.w, k, v), call.n_bit,
                                           call.groupsize)]
                  @@ [changed_at |-> k, first_w |-> call.w, first_ret |-> call.ret]
    /\ UNCHANGED handler_vars

\* scales / zero_points arguments of quantize_per_channel_group
GroupParamShapes == {<<1, 1>>, <<1, 2>>, <<2, 1>>, <<3, 1>>}

\* the weights quantize_per_channel_group is applied to with given qparams
CoarseWeights == TensorsOver(WeightShapes, {-60, 45})

QuantizePerChannelGroup ==
    /\ call = NoCall
    /\ \E input \in CoarseWeights, psh \in GroupParamShapes, sv \in ScaleValues,
          zv \in ZeroPointValues, r \in CheckedRanges, group_size \in GroupSizes,
          cast \in CastModes :
          /\ (r[1] >= -128 /\ r[2] <= 127) => cast = "wrap"
          /\ call' = [op |-> "quantize_per_channel_group", input |-> input,
                      scales |-> Filled(psh, sv), zero_points |-> Filled(psh, zv),
                      quant_min |-> r[1], quant_max |-> r[2], group_size |-> group_size,
                      cast |-> cast,
                      ret |-> quantize_per_channel_group(input, Filled(psh, sv),
                                  Filled(psh, zv), r[1], r[2], group_size, cast)]
    /\ UNCHANGED handler_vars

GroupQuantizeTensorSymmetric ==
    /\ call = NoCall
    /\ \E w \in Weights, n_bit \in NBits, group_size \in GroupSizes :
          call' = [op |-> "group_quantize_tensor_symmetric", w |-> w, n_bit |-> n_bit,
                   group_size |-> group_size,
                   ret |-> group_quantize_tensor_symmetric(w, n_bit, group_size)]
    /\ UNCHANGED handler_vars

\* dequantize_per_channel_group applied to what group_quantize_tensor_symmetric
\* returned, with the same group_size (as linear_forward_int4 does, 896-914)
DequantizeGroupQuantized ==
    /\ call.op = "group_quantize_tensor_symmetric"
    /\ ~IsError(call.ret)
    /\ call' = [op |-> "dequantize_per_channel_group", w_int8 |-> call.ret.w_int8,
                scales |-> call.ret.scales, zero_points |-> call.ret.zeros,
                quant_min |-> -Pow2(4 - 1), quant_max |-> Pow2(4 - 1) - 1,
                group_size |-> call.group_size, quantized |-> call,
                ret |-> dequantize_per_channel_group(call.ret.w_int8, call.ret.scales,
                            call.ret.zeros, -Pow2(4 - 1), Pow2(4 - 1) - 1,
                            call.group_size)]
    /\ UNCHANGED handler_vars

\* dequantize_per_channel_group applied to what dynamically_quantize_per_channel
\* returned, with the same range and group_size
DequantizeDynamicallyQuantized ==
    /\ call.op = "dynamically_quantize_per_channel"
    /\ "changed_at" \notin DOMAIN call
    /\ "nan_at" \notin DOMAIN call
    /\ ~IsError(call.ret)
    /\ call.group_size # None
    /\ call' = [op |-> "dequantize_per_channel_group", w_int8 |-> call.ret.quant,
                scales |-> call.ret.scales, zero_points |-> call.ret.zero_points,
                quant_min |-> call.quant_min, quant_max |-> call.quant_max,
                group_size |-> call.group_size[1], quantized |-> call,
                ret |-> dequantize_per_channel_group(call.ret.quant, call.ret.scales,
                            call.ret.zero_points, call.quant_min, call.quant_max,
                            call.group_size[1])]
    /\ UNCHANGED handler_vars

\* a call that returned on a finite weight, made again with one element of
\* the weight replaced by NaN; whatever the cast of NaN to int8 gives
DynamicallyQuantizePerChannelNaN ==
    /\ call.op = "dynamically_quantize_per_channel"
    /\ "changed_at" \notin DOMAIN call
    /\ "nan_at" \notin DOMAIN call
    /\ ~IsError(call.ret)
    /\ \E k \in 1..Len(call.x.data), cast \in CastModes :
          call' = [call EXCEPT !.x = with_element(call.x, k, NaN),
                               !.ret = dynamically_quantize_per_channel(
                                           with_element(call.x, k, NaN), call.quant_min,
                                           call.quant_max, call.group_size,
                                           call.enable_non_multiple_groups, cast)]
                  @@ [nan_at |-> k, cast |-> cast]
    /\ UNCHANGED handler_vars

GetGroupQparamsSymmetricNaN ==
    /\ call.op = "get_group_qparams_symmetric"
    /\ "changed_at" \notin DOMAIN call
    /\ "nan_at" \notin DOMAIN call
    /\ ~IsError(call.ret)
    /\ \E k \in 1..Len(call.w.data) :
          call' = [call EXCEPT !.w = with_element(call.w, k, NaN),
                               !.ret = get_group_qparams_symmetric(
                                           with_element(call.w, k, NaN), call.n_bit,
                                           call.groupsize)]
                  @@ [nan_at |-> k]
    /\ UNCHANGED handler_vars

QuantizePerChannelGroupNaN ==
    /\ call.op = "quantize_per_channel_group"
    /\ "nan_at" \notin DOMAIN call
    /\ ~IsError(call.ret)
    /\ \E k \in 1..Len(call.input.data) :
          call' = [call EXCEPT !.input = with_element(call.input, k, NaN),
                               !.ret = quantize_per_channel_group(
                                           with_element(call.input, k, NaN),
                                           call.scales, call.zero_points,
                                           call.quant_min, call.quant_max,
                                           call.group_size, call.cast)]
                  @@ [nan_at |-> k]
    /\ UNCHANGED handler_vars

\* dequantize_per_channel_group called on its own, on an int8 array of the
\* shape and with the group_size that group_quantize_tensor_symmetric was
\* called with (whether that call returned or failed)
DequantizePerChannelGroup ==
    /\ call.op = "group_quantize_tensor_symmetric"
    /\ call.n_bit = 4
    /\ \E psh \in GroupParamShapes, sv \in ScaleValues :
          call' = [op |-> "dequantize_per_channel_group",
                   w_int8 |-> Filled(call.w.shape, 0),
                   scales |-> Filled(psh, sv), zero_points |-> Filled(psh, 0),
                   quant_min |-> -Pow2(4 - 1), quant_max |-> Pow2(4 - 1) - 1,
                   group_size |-> call.group_size,
                   quantize_failed |-> IsError(call.ret),
                   ret |-> dequantize_per_channel_group(Filled(call.w.shape, 0),
                               Filled(psh, sv), Filled(psh, 0), -Pow2(4 - 1),
                               Pow2(4 - 1) - 1, call.group_size)]
    /\ UNCHANGED handler_vars

Next ==
    \/ PackInt4FromInt8
    \/ UnpackInt4ToInt8
    \/ ChooseQparamsPerToken
    \/ ChooseQparamsPerTokenAsymmetric
    \/ QuantizePerToken
    \/ DequantizePerToken
    \/ DynamicallyQuantizePerChannel
    \/ DynamicallyQuantizePerChannelChanged
    \/ GetGroupQparamsSymmetric
    \/ GetGroupQparamsSymmetricChanged
    \/ QuantizePerChannelGroup
    \/ GroupQuantizeTensorSymmetric
    \/ DequantizeGroupQuantized
    \/ DequantizeDynamicallyQuantized
    \/ DequantizePerChannelGroup
    \/ DynamicallyQuantizePerChannelNaN
    \/ GetGroupQparamsSymmetricNaN
    \/ QuantizePerChannelGroupNaN
    \/ ChooseQparamsPerTokenMeta
    \/ ChooseQparamsPerTokenAsymmetricMeta

Spec == Init /\ [][Next]_vars

-----------------------------------------------------------------------------
(* The module tree, quantize.py 616-1157                                   *)
(*                                                                         *)
(* A node is a container [kind, children] with children a sequence of      *)
(* [name, node] in named_children() order, or a leaf whose parameters and  *)
(* buffers are the record `tensors`.  A fully-qualified name is the        *)
(* sequence of child names from the root (the names joined by "." in the   *)
(* code; a child name holds no dot); a state_dict key is <<fqn, tensor>>.  *)

\* torch.empty(shape): the contents are unspecified until loaded
Empty(sh) == [shape |-> sh, data |-> <<>>]

\* 1.0 in units of 1.25e-6
One == Frac(800000, 1)

\* torch.ones(shape)
Ones(sh) == Filled(sh, One)

Linear(weight, bias) ==
    [kind |-> "Linear", in_features |-> weight.shape[2],
     out_features |-> weight.shape[1],
     tensors |-> IF bias = None THEN [weight |-> weight]
                 ELSE [weight |-> weight,
                       bias |-> Filled(<<weight.shape[1]>>, bias[1])]]

Embedding(weight) == [kind |-> "Embedding", tensors |-> [weight |-> weight]]

Container(children) == [kind |-> "container", children |-> children]

\* a plausible slip: the class derives from torch.nn.Linear
WeightOnlyInt8Linear_as_linear(in_features, out_features) ==
    [kind |-> "Linear", in_features |-> in_features,
     out_features |-> out_features,
     tensors |-> [weight |-> Empty(<<out_features, in_features>>),
                  scales |-> Ones(<<out_features>>)]]

\* a plausible slip: the weight buffer is declared transposed
WeightOnlyInt8Linear_transposed(in_features, out_features) ==
    [kind |-> "WeightOnlyInt8Linear", in_features |-> out_features,
     out_features |-> in_features,
     tensors |-> [weight |-> Empty(<<in_features, out_features>>),
                  scales |-> Ones(<<in_features>>)]]

\* WeightOnlyInt8Linear.__init__: the scales buffer has shape (out_features,)
\* whatever the group size
WeightOnlyInt8Linear(in_features, out_features) ==
    [kind |-> "WeightOnlyInt8Linear", in_features |-> in_features,
     out_features |-> out_features,
     tensors |-> [weight |-> Empty(<<out_features, in_features>>),
                  scales |-> Ones(<<out_features>>)]]

ZeroDivisionError == [error |-> "zero_division"]

\* QuantizedGroupEmbedding.__init__
QuantizedGroupEmbedding(vocab_size, embedding_dim, group_size) ==
    LET gs == IF group_size = None THEN embedding_dim ELSE group_size[1]
    IN  IF gs = 0 THEN ZeroDivisionError
        ELSE
        LET groups_per_row == (embedding_dim + gs - 1) \div gs
        IN  [kind |-> "QuantizedGroupEmbedding", group_size |-> gs,
             tensors |-> [weight |-> Empty(<<vocab_size, embedding_dim>>),
                          scales |-> IF groups_per_row > 1
                                     THEN Ones(<<vocab_size, groups_per_row>>)
                                     ELSE Ones(<<vocab_size>>)]]

\* Int8DynActInt4WeightLinear.__init__
Int8DynActInt4WeightLinear(in_features, out_features, bias, group_size) ==
    IF group_size = 0 THEN ZeroDivisionError
    ELSE IF in_features % group_size # 0 THEN AssertError
    ELSE IF bias THEN AssertError
    ELSE [kind |-> "Int8DynActInt4WeightLinear", in_features |-> in_features,
          out_features |-> out_features, group_size |-> group_size,
          tensors |-> [weight |-> Empty(<<out_features, in_features>>),
                       scales |-> Empty(<<out_features, in_features \div group_size>>),
                       zeros  |-> Empty(<<out_features, in_features \div group_size>>)]]

IsLeaf(node) == node.kind # "container"

\* the concatenation of a sequence of sequences
RECURSIVE Flatten(_)
Flatten(ss) == IF Len(ss) = 0 THEN <<>> ELSE Head(ss) \o Flatten(Tail(ss))

\* module.named_modules(): every node with its fully-qualified name, the
\* module itself first (its name is empty), then each child's, in order
RECURSIVE named_modules(_, _)
named_modules(node, prefix) ==
    <<[fqn |-> prefix, mod |-> node]>>
    \o (IF IsLeaf(node) THEN <<>>
        ELSE Flatten([i \in 1..Len(node.children) |->
                        named_modules(node.children[i].node,
                                      prefix \o <<node.children[i].name>>)]))

\* module.state_dict(): every parameter and buffer under its key
state_dict_of(module) ==
    LET nm == named_modules(module, <<>>)
        leaves == {i \in 1..Len(nm) : IsLeaf(nm[i].mod)}
        keys == UNION {{<<nm[i].fqn, t>> : t \in DOMAIN nm[i].mod.tensors} :
                       i \in leaves}
    IN  [k \in keys |->
           LET i == CHOOSE j \in leaves : nm[j].fqn = k[1]
           IN  nm[i].mod.tensors[k[2]]]

\* d[key] = value on a dictionary
dict_set(d, key, value) ==
    [k \in DOMAIN d \cup {key} |-> IF k = key THEN value ELSE d[k]]

\* t.squeeze(dim=-1)
squeeze_last(t) ==
    IF Last(t.shape) = 1 THEN [t EXCEPT !.shape = Front(t.shape)] ELSE t

UnsupportedBitwidth == [error |-> "unsupported_bitwidth"]

\* the quantization range of a bitwidth, or the ValueError of 672-679, 790-797
bitwidth_range(bitwidth) ==
    IF bitwidth = 4 THEN [range_min |-> -8, range_max |-> 7]
    ELSE IF bitwidth = 8 THEN [range_min |-> -128, range_max |-> 127]
    ELSE UnsupportedBitwidth

\* a plausible slip: the filter "!output" lets every name pass
node_type_matches_any_name(node_type, name) ==
    \/ node_type = "*"
    \/ node_type = "output" /\ name = "output"
    \/ node_type = "!output"

\* the name test of replace_linear_weight_only_int8_per_channel (634-638):
\* on the child's own name
node_type_matches_name(node_type, name) ==
    \/ node_type = "*"
    \/ node_type = "output" /\ name = "output"
    \/ node_type = "!output" /\ name # "output"

\* the name test of create_quantized_state_dict (685-692): on the
\* fully-qualified name
node_type_matches_fqn(node_type, fqn) ==
    \/ node_type = "*"
    \/ node_type = "output" /\ fqn \in {<<"output">>, <<"final_proj">>}
    \/ node_type = "!output" /\ fqn \notin {<<"output">>, <<"final_proj">>}

\* the loop body of WeightOnlyInt8QuantHandler.create_quantized_state_dict
\* over named_modules()[i..], on the dictionary d
RECURSIVE quantize_linears_int8(_, _, _, _, _)
quantize_linears_int8(nm, i, d, h, range) ==
    IF i > Len(nm) THEN d
    ELSE IF nm[i].mod.kind = "Linear" /\ node_type_matches_fqn(h.node_type, nm[i].fqn)
    THEN LET q == dynamically_quantize_per_channel(nm[i].mod.tensors.weight,
                      range.range_min, range.range_max, h.group_size, TRUE,
                      "wrap")
         IN  quantize_linears_int8(nm, i + 1,
                 dict_set(dict_set(d, <<nm[i].fqn, "weight">>, q.quant),
                          <<nm[i].fqn, "scales">>, squeeze_last(q.scales)),
                 h, range)
    ELSE quantize_linears_int8(nm, i + 1, d, h, range)

\* the loop body of EmbeddingOnlyInt8QuantHandler.create_quantized_state_dict
RECURSIVE quantize_embeddings_int8(_, _, _, _, _)
quantize_embeddings_int8(nm, i, d, h, range) ==
    IF i > Len(nm) THEN d
    ELSE IF nm[i].mod.kind = "Embedding"
    THEN LET q == dynamically_quantize_per_channel(nm[i].mod.tensors.weight,
                      range.range_min, range.range_max, h.group_size, TRUE,
                      "wrap")
         IN  quantize_embeddings_int8(nm, i + 1,
                 dict_set(dict_set(d, <<nm[i].fqn, "weight">>, q.quant),
                          <<nm[i].fqn, "scales">>, squeeze_last(q.scales)),
                 h, range)
    ELSE quantize_embeddings_int8(nm, i + 1, d, h, range)

AmbiguousBoolError == [error |-> "ambiguous_bool"]

\* `assert not mod.bias`: None passes; a one-element bias is its element's
\* truth value; a longer bias cannot be converted to bool.
Passed == [passed |-> TRUE]

assert_not_bias(linear) ==
    IF "bias" \notin DOMAIN linear.tensors THEN Passed
    ELSE IF Len(linear.tensors.bias.data) > 1 THEN AmbiguousBoolError
    ELSE IF linear.tensors.bias.data[1] # 0 THEN AssertError
    ELSE Passed

prepare_int4_weight_and_scales_and_zeros(weight, group_size) ==
    group_quantize_tensor_symmetric(weight, 4, group_size)

\* the loop body of Int8DynActInt4WeightQuantHandler.create_quantized_state_dict;
\* the dictionary (as [entries |-> d]), or the error that ends the loop
RECURSIVE quantize_linears_8da4w(_, _, _, _)
quantize_linears_8da4w(nm, i, d, h) ==
    IF i > Len(nm) THEN [entries |-> d]
    ELSE IF nm[i].mod.kind = "Linear"
    THEN IF IsError(assert_not_bias(nm[i].mod)) THEN assert_not_bias(nm[i].mod)
         ELSE IF h.group_size = 0 THEN ZeroDivisionError
         ELSE IF nm[i].mod.in_features % h.group_size # 0 THEN AssertError
         ELSE LET q == prepare_int4_weight_and_scales_and_zeros(
                           nm[i].mod.tensors.weight, h.group_size)
              IN  IF IsError(q) THEN q
                  ELSE quantize_linears_8da4w(nm, i + 1,
                           dict_set(dict_set(dict_set(d,
                               <<nm[i].fqn, "weight">>, q.w_int8),
                               <<nm[i].fqn, "scales">>, q.scales),
                               <<nm[i].fqn, "zeros">>, q.zeros), h)
    ELSE quantize_linears_8da4w(nm, i + 1, d, h)

\* <handler>.create_quantized_state_dict(): the dictionary (as
\* [entries |-> d]), or the error
create_quantized_state_dict(h, module) ==
    LET cur_state_dict == state_dict_of(module)
        nm == named_modules(module, <<>>)
    IN  IF h.cls = "Int8DynActInt4WeightQuantHandler"
        THEN quantize_linears_8da4w(nm, 1, cur_state_dict, h)
        ELSE IF IsError(bitwidth_range(h.bitwidth)) THEN bitwidth_range(h.bitwidth)
        ELSE IF h.cls = "WeightOnlyInt8QuantHandler"
        THEN [entries |-> quantize_linears_int8(nm, 1, cur_state_dict, h,
                                                bitwidth_range(h.bitwidth))]
        ELSE [entries |-> quantize_embeddings_int8(nm, 1, cur_state_dict, h,
                                                   bitwidth_range(h.bitwidth))]

\* what a replace_* function puts in the place of a child, or the child
\* itself when it is no target of the handler
replacement_of(h, name, child) ==
    IF h.cls = "WeightOnlyInt8QuantHandler"
    THEN IF child.kind = "Linear" /\ node_type_matches_name(h.node_type, name)
         THEN WeightOnlyInt8Linear(child.in_features, child.out_features)
         ELSE child
    ELSE IF h.cls = "EmbeddingOnlyInt8QuantHandler"
    THEN IF child.kind = "Embedding"
         THEN QuantizedGroupEmbedding(child.tensors.weight.shape[1],
                                      child.tensors.weight.shape[2], h.group_size)
         ELSE child
    ELSE IF child.kind = "Linear"
         THEN IF h.group_size = 0 THEN ZeroDivisionError   \* _check_linear_int4_k
              ELSE IF child.in_features % h.group_size = 0 \/ h.padding_allowed
              THEN Int8DynActInt4WeightLinear(child.in_features, child.out_features,
                                              FALSE, h.group_size)
              ELSE child
         ELSE child

\* the kind of leaf a replace_* function tests its children for
target_kind(h) ==
    IF h.cls = "EmbeddingOnlyInt8QuantHandler" THEN "Embedding" ELSE "Linear"

\* replace_linear_weight_only_int8_per_channel,
\* replace_embedding_weight_only_grouped_int8_per_channel, replace_linear_8da4w:
\* the loop over named_children()[i..] of `module`, each child of the target
\* kind replaced (setattr keeps its place and name), every other child
\* recursed into.  [module, error]: the module as the loop left it, and the
\* error that ended it, if one did (error |-> "none" otherwise).
RECURSIVE replace_children(_, _, _)
replace_children(module, i, h) ==
    IF IsLeaf(module) \/ i > Len(module.children)
    THEN [module |-> module, error |-> "none"]
    ELSE
    LET name == module.children[i].name
        child == module.children[i].node
    IN  IF child.kind = target_kind(h)
        THEN LET new == replacement_of(h, name, child)
             IN  IF IsError(new) THEN [module |-> module, error |-> new.error]
                 ELSE replace_children(
                          [module EXCEPT !.children[i].node = new], i + 1, h)
        ELSE LET sub == replace_children(child, 1, h)
             IN  IF sub.error # "none"
                 THEN [module |-> [module EXCEPT !.children[i].node = sub.module],
                       error |-> sub.error]
                 ELSE replace_children(
                          [module EXCEPT !.children[i].node = sub.module], i + 1, h)

\* <handler>.convert_for_runtime()
convert_for_runtime(h, module) == replace_children(module, 1, h)

\* module.load_state_dict(d), strict: every key of the module that the
\* dictionary holds with the same shape is copied; a missing key, an
\* unexpected key or a shape mismatch is reported after the copies are done
load_state_dict(module, d) ==
    LET own == state_dict_of(module)
        missing == DOMAIN own \ DOMAIN d
        unexpected == DOMAIN d \ DOMAIN own
        mismatch == {k \in DOMAIN own \cap DOMAIN d : own[k].shape # d[k].shape}
        copied == (DOMAIN own \cap DOMAIN d) \ mismatch
    IN  [copied |-> copied,
         error  |-> IF missing = {} /\ unexpected = {} /\ mismatch = {} THEN "none"
                    ELSE "load_state_dict",
         missing |-> missing, unexpected |-> unexpected, mismatch |-> mismatch]

\* the module with the tensors under the keys `copied` taken from d
RECURSIVE with_loaded(_, _, _, _)
with_loaded(node, prefix, copied, d) ==
    IF IsLeaf(node)
    THEN [node EXCEPT !.tensors =
            [t \in DOMAIN node.tensors |->
               IF <<prefix, t>> \in copied THEN d[<<prefix, t>>] ELSE node.tensors[t]]]
    ELSE [node EXCEPT !.children =
            [i \in 1..Len(node.children) |->
               [node.children[i] EXCEPT !.node =
                  with_loaded(node.children[i].node,
                              prefix \o <<node.children[i].name>>, copied, d)]]]

-----------------------------------------------------------------------------
(* The handlers as a state machine.  `mod` is self.mod, `original` the     *)
(* module the handler was constructed on, `state_dict` the dictionary      *)
(* create_quantized_state_dict returned, `pc` what has been called so far, *)
(* `last` the method called last, and `outcome` the exception that ended   *)
(* that call ("none" if none did).                                         *)
(* An exception is not caught: pc = "failed" ends the behaviour.           *)

\* the weights of the leaves, in units of 1.25e-6
WeightPattern == <<-60, 7, 45, 0, 7, -60>>

WeightOf(sh) == [shape |-> sh, data |-> [i \in 1..Prod(sh) |-> WeightPattern[i]]]

\* linear leaves without a bias, with a one-element and a two-element bias,
\* and an embedding
LeafVariants ==
    {Linear(WeightOf(<<1, 4>>), None), Linear(WeightOf(<<2, 3>>), None),
     Linear(WeightOf(<<1, 4>>), Some(5)), Linear(WeightOf(<<2, 3>>), Some(5)),
     Embedding(WeightOf(<<2, 3>>))}

InnerNames == {"linear", "output"}

RootNames == {"layer1", "output", "final_proj"}

names_of(children) == {children[i].name : i \in 1..Len(children)}

\* the children of a container below the root: at most k leaves, no name twice
RECURSIVE InnerChildren(_)
InnerChildren(k) ==
    IF k = 0 THEN {<<>>}
    ELSE InnerChildren(k - 1) \cup
         UNION {{<<[name |-> n, node |-> x]>> \o c :
                    n \in InnerNames \ names_of(c), x \in LeafVariants} :
                c \in InnerChildren(k - 1)}

\* what a child of the root can be: a leaf, or under the name "layer1" a
\* container of leaves
RootNodes(n) ==
    LeafVariants \cup
        (IF n = "layer1" THEN {Container(c) : c \in InnerChildren(MaxInnerChildren)}
         ELSE {})

RECURSIVE RootChildren(_)
RootChildren(k) ==
    IF k = 0 THEN {<<>>}
    ELSE RootChildren(k - 1) \cup
         UNION {UNION {{<<[name |-> n, node |-> x]>> \o c : x \in RootNodes(n)} :
                       n \in RootNames \ names_of(c)} :
                c \in RootChildren(k - 1)}

\* the models a handler is constructed on: a container, or a single leaf
Modules == {Container(c) : c \in RootChildren(MaxChildren)} \cup LeafVariants

NodeTypes == {"*", "output", "!output"}

Bitwidths == {3, 4, 8}

\* group_size is an Optional[int] for the int8 handlers, an int for the
\* int4 handler
WeightOnlyInt8QuantHandlers ==
    {[cls |-> "WeightOnlyInt8QuantHandler", node_type |-> f, bitwidth |-> b,
      group_size |-> g] : f \in NodeTypes, b \in Bitwidths, g \in OptGroupSizes}

EmbeddingOnlyInt8QuantHandlers ==
    {[cls |-> "EmbeddingOnlyInt8QuantHandler", bitwidth |-> b, group_size |-> g] :
        b \in Bitwidths, g \in OptGroupSizes}

Int8DynActInt4WeightQuantHandlers ==
    {[cls |-> "Int8DynActInt4WeightQuantHandler", group_size |-> g,
      padding_allowed |-> p] : g \in GroupSizes, p \in BOOLEAN}

\* <handler>.__init__(mod, ...)
InitHandler ==
    /\ call = NoCall
    /\ \/ handler \in WeightOnlyInt8QuantHandlers
       \/ handler \in EmbeddingOnlyInt8QuantHandlers
       \/ handler \in Int8DynActInt4WeightQuantHandlers
    /\ mod \in Modules
    /\ original = mod
    /\ state_dict = NoStateDict
    /\ pc = "init"
    /\ last = "none"
    /\ outcome = "none"

\* handler.create_quantized_state_dict(), on the model as it is
CreateQuantizedStateDict ==
    /\ pc \in {"init", "converted"}
    /\ LET d == create_quantized_state_dict(handler, mod)
       IN  IF IsError(d)
           THEN /\ pc' = "failed"
                /\ outcome' = d.error
                /\ state_dict' = state_dict
           ELSE /\ pc' = IF pc = "init" THEN "created" ELSE "converted_created"
                /\ outcome' = "none"
                /\ state_dict' = [created |-> TRUE, entries |-> d.entries]
    /\ last' = "create_quantized_state_dict"
    /\ UNCHANGED <<call, handler, mod, original>>

\* handler.convert_for_runtime(), before or after the dictionary is created,
\* and again on a converted model, loaded or not
ConvertForRuntime ==
    /\ pc \in {"init", "created", "converted", "created_converted",
               "converted_created", "loaded"}
    /\ LET r == convert_for_runtime(handler, mod)
       IN  /\ mod' = r.module
           /\ outcome' = r.error
           /\ pc' = IF r.error # "none" THEN "failed"
                    ELSE IF pc = "init" THEN "converted"
                    ELSE IF pc = "created" THEN "created_converted"
                    ELSE pc
    /\ last' = "convert_for_runtime"
    /\ UNCHANGED <<call, handler, original, state_dict>>

\* self.mod.load_state_dict(model_updated_state_dict) on the converted model
LoadStateDict ==
    /\ pc \in {"created_converted", "converted_created"}
    /\ LET r == load_state_dict(mod, state_dict.entries)
       IN  /\ mod' = with_loaded(mod, <<>>, r.copied, state_dict.entries)
           /\ outcome' = r.error
           /\ pc' = IF r.error # "none" THEN "failed" ELSE "loaded"
    /\ last' = "load_state_dict"
    /\ UNCHANGED <<call, handler, original, state_dict>>

\* a plausible slip: the model is converted before the dictionary is created
QuantizedModel_convert_first ==
    /\ pc = "init"
    /\ LET c == convert_for_runtime(handler, mod)
           d == create_quantized_state_dict(handler, c.module)
       IN  IF c.error # "none"
           THEN /\ pc' = "failed"
                /\ outcome' = c.error
                /\ mod' = c.module
                /\ UNCHANGED state_dict
           ELSE IF IsError(d)
           THEN /\ pc' = "failed"
                /\ outcome' = d.error
                /\ mod' = c.module
                /\ UNCHANGED state_dict
           ELSE
           LET r == load_state_dict(c.module, d.entries)
           IN  /\ state_dict' = [created |-> TRUE, entries |-> d.entries]
               /\ mod' = with_loaded(c.module, <<>>, r.copied, d.entries)
               /\ outcome' = r.error
               /\ pc' = IF r.error # "none" THEN "failed" ELSE "loaded"
    /\ last' = "quantized_model"
    /\ UNCHANGED <<call, handler, original>>

\* handler.quantized_model(): the three calls in the order of the code, the
\* first exception ending the call (720-724, 835-839, 1048-1052)
QuantizedModel ==
    /\ pc = "init"
    /\ LET d == create_quantized_state_dict(handler, mod)
       IN  IF IsError(d)
           THEN /\ pc' = "failed"
                /\ outcome' = d.error
                /\ UNCHANGED <<mod, state_dict>>
           ELSE
           LET c == convert_for_runtime(handler, mod)
           IN  /\ state_dict' = [created |-> TRUE, entries |-> d.entries]
               /\ IF c.error # "none"
                  THEN /\ pc' = "failed"
                       /\ outcome' = c.error
                       /\ mod' = c.module
                  ELSE
                  LET r == load_state_dict(c.module, d.entries)
                  IN  /\ mod' = with_loaded(c.module, <<>>, r.copied, d.entries)
                      /\ outcome' = r.error
                      /\ pc' = IF r.error # "none" THEN "failed" ELSE "loaded"
    /\ last' = "quantized_model"
    /\ UNCHANGED <<call, handler, original>>

NextHandler ==
    \/ CreateQuantizedStateDict
    \/ ConvertForRuntime
    \/ LoadStateDict
    \/ QuantizedModel

SpecHandler == InitHandler /\ [][NextHandler]_vars

-----------------------------------------------------------------------------
(* Properties of the kernels                                               *)

\* C1: for every int8 array with values in [-8, 7] and an even trailing
\* dimension, unpack_int4_to_int8(pack_int4_from_int8(x)) equals x element
\* for element, also when an element of a pair is negative.
C1_PackUnpackRoundTrip ==
    call.op = "unpack_int4_to_int8" => call.ret = call.packed_from

\* C5: quantize_per_token and dequantize_per_token both fail when the number
\* of tokens (the product of the leading dimensions of the input) differs
\* from the element count of the scales or of the zero points (the range
\* arguments being valid).
C5_PerTokenDimCheck ==
    ( /\ call.op \in {"quantize_per_token", "dequantize_per_token"}
      /\ quant_min_max_bounds_check(call.quant_min, call.quant_max, call.dtype)
      /\ \/ num_tokens_of(call.input) # Len(call.scales.data)
         \/ num_tokens_of(call.input) # Len(call.zero_points.data) )
    => IsError(call.ret)

\* C6: quantize_per_token and quantize_per_channel_group both fail, returning
\* no quantized value, when quant_min > quant_max or when the range is not
\* representable in the target dtype (int8 for the per-channel-group quantizer).
C6_BoundsChecked ==
    /\ call.op = "quantize_per_token"
         /\ ~quant_min_max_bounds_check(call.quant_min, call.quant_max, call.dtype)
       => IsError(call.ret)
    /\ call.op = "quantize_per_channel_group"
         /\ ~quant_min_max_bounds_check(call.quant_min, call.quant_max, "int8")
       => IsError(call.ret)

\* the scale that element i of a 2-D tensor of the given row-major layout
\* was quantized with, when the groups have gs elements
scale_of_element(scales, i, gs) == scales.data[(i - 1) \div gs + 1]

\* |x - q * scale| <= scale / 2
WithinHalfScale(x, dq, scale) ==
    2 * Abs(x * dq.d - dq.n) * scale.d <= scale.n * dq.d

IsGroupRoundTrip ==
    /\ call.op = "dequantize_per_channel_group"
    /\ "quantized" \in DOMAIN call
    /\ call.quantized.op = "group_quantize_tensor_symmetric"
    /\ call.quantized.n_bit = 4
    /\ Last(call.quantized.w.shape) % call.group_size = 0

\* C7: for a 2-D weight whose row length is a multiple of group_size,
\* group_quantize_tensor_symmetric (4-bit) followed by
\* dequantize_per_channel_group succeeds and reconstructs every element whose
\* group's scale is not epsilon-clamped within scale / 2 of its value.
C7_RoundTripWithinHalfScale ==
    IsGroupRoundTrip =>
        /\ ~IsError(call.ret)
        /\ \A i \in 1..Len(call.quantized.w.data) :
              LET scale == scale_of_element(call.scales, i, call.group_size)
              IN  FLt(Eps, scale) =>
                    WithinHalfScale(call.quantized.w.data[i], call.ret.data[i], scale)

\* C7 witness: a round trip in which an element of largest magnitude has the
\* scaled value +7.5, is rounded to 8 and clamped to 7
C7_Witness ==
    /\ IsGroupRoundTrip
    /\ ~IsError(call.ret)
    /\ \E i \in 1..Len(call.quantized.w.data) :
          LET scale == scale_of_element(call.scales, i, call.group_size)
          IN  /\ FLt(Eps, scale)
              /\ 2 * call.quantized.w.data[i] * scale.d = 15 * scale.n
              /\ call.w_int8.data[i] = 7

\* ceil(a / b)
CeilDiv(a, b) == (a + b - 1) \div b

\* C8: dynamically_quantize_per_channel (padding enabled) on a weight whose
\* row length is not divisible by group_size returns a quantized array of the
\* original row length with ceil(row_length / group_size) scales per row, and
\* dequantize_per_channel_group of that result with the same group_size
\* succeeds and returns an array of the original shape.
C8_PaddedRoundTripShape ==
    ( /\ call.op = "dequantize_per_channel_group"
      /\ "quantized" \in DOMAIN call
      /\ call.quantized.op = "dynamically_quantize_per_channel"
      /\ call.quantized.enable_non_multiple_groups
      /\ call.group_size > 0
      /\ Last(call.quantized.x.shape) % call.group_size # 0 )
    => /\ call.w_int8.shape = call.quantized.x.shape
       /\ call.scales.shape =
            <<call.quantized.x.shape[1],
              CeilDiv(Last(call.quantized.x.shape), call.group_size)>>
       /\ ~IsError(call.ret)
       /\ call.ret.shape = call.quantized.x.shape

\* the effective group length of a changed call, and the number of groups
\* per (padded) row
changed_items ==
    IF call.op = "dynamically_quantize_per_channel"
    THEN (IF call.group_size \in {None, Some(0)} THEN Last(call.x.shape)
          ELSE call.group_size[1])
    ELSE Min2(call.groupsize, Last(call.w.shape))

changed_input == IF call.op = "dynamically_quantize_per_channel" THEN call.x ELSE call.w

\* the group (1-based, row-major over rows and groups of a row) that
\* element k of the input lies in
group_of_element(k) ==
    LET cols == Last(changed_input.shape)
        per_row == CeilDiv(cols, changed_items)
    IN  ((k - 1) \div cols) * per_row + ((k - 1) % cols) \div changed_items + 1

IsChangedCall ==
    /\ call.op \in {"dynamically_quantize_per_channel", "get_group_qparams_symmetric"}
    /\ "changed_at" \in DOMAIN call

\* C9: when two weights of the same shape differ only inside one group, both
\* choosers return the same scale and zero point for every other group, and
\* dynamically_quantize_per_channel the same quantized value for every
\* element outside the changed group.
C9_PerGroupIndependence ==
    IsChangedCall =>
        LET changed == group_of_element(call.changed_at)
            zps(r) == IF call.op = "dynamically_quantize_per_channel"
                      THEN r.zero_points ELSE r.zeros
        IN  /\ ~IsError(call.ret)
            /\ call.ret.scales.shape = call.first_ret.scales.shape
            /\ \A g \in 1..Len(call.ret.scales.data) :
                  g # changed =>
                    /\ call.ret.scales.data[g] = call.first_ret.scales.data[g]
                    /\ zps(call.ret).data[g] = zps(call.first_ret).data[g]
            /\ call.op = "dynamically_quantize_per_channel" =>
                  \A i \in 1..Len(call.x.data) :
                    group_of_element(i) # changed =>
                      call.ret.quant.data[i] = call.first_ret.quant.data[i]

\* C9 witness: the change moved the scale of its own group, and that group
\* has a neighbour in the same row
C9_Witness ==
    /\ IsChangedCall
    /\ ~IsError(call.ret)
    /\ Len(call.ret.scales.data) > changed_input.shape[1]
    /\ LET changed == group_of_element(call.changed_at)
       IN  call.ret.scales.data[changed] # call.first_ret.scales.data[changed]

\* 1e-5 / 127, the floor under the scales of choose_qparams_per_token
PerTokenFloor == Frac(ClampMin.n, ClampMin.d * 127)

ReturnsScales ==
    /\ call.op \in {"dynamically_quantize_per_channel", "get_group_qparams_symmetric",
                     "choose_qparams_per_token_asymmetric", "choose_qparams_per_token"}
    /\ "nan_at" \notin DOMAIN call
    /\ ~IsError(call.ret)

\* C10: every scale a qparam chooser returns is at least a positive floor,
\* hence greater than zero, all-zero blocks included: eps for the symmetric
\* and asymmetric choosers, 1e-5 / quant_max for choose_qparams_per_token.
C10_ScalePositive ==
    ReturnsScales =>
        \A g \in 1..Len(call.ret.scales.data) :
            LET scale == call.ret.scales.data[g]
            IN  /\ scale.n > 0 /\ scale.d > 0
                /\ IF call.op = "choose_qparams_per_token"
                   THEN FLeq(PerTokenFloor, scale)
                   ELSE FLeq(Eps, scale)

\* C10 witness: an all-zero block, whose scale is the floor itself
C10_Witness ==
    /\ call.op = "get_group_qparams_symmetric"
    /\ ~IsError(call.ret)
    /\ \A i \in 1..Len(call.w.data) : call.w.data[i] = 0
    /\ \A g \in 1..Len(call.ret.scales.data) : FEq(call.ret.scales.data[g], Eps)

\* the statement's scale of a block: max(eps, (max_pos - min_neg) / 255)
stated_asymmetric_scale(min_neg, max_pos) ==
    IF FLeq(Eps, Frac(max_pos - min_neg, 255)) THEN Frac(max_pos - min_neg, 255)
    ELSE Eps

\* (qmin + min_neg / scale) + (qmax + max_pos / scale) > 0, for scale = s
min_anchored(min_neg, max_pos, s) ==
    (-128 + 127) * s.n + (min_neg + max_pos) * s.d > 0

\* the statement's candidate c, as a fraction
stated_candidate(min_neg, max_pos) ==
    LET s == stated_asymmetric_scale(min_neg, max_pos)
    IN  IF min_anchored(min_neg, max_pos, s)
        THEN Frac(-128 * s.n - min_neg * s.d, s.n)
        ELSE Frac(127 * s.n - max_pos * s.d, s.n)

\* z = round(clamp(c, -128, 127)), halves to even
IsRoundOfClamp(z, c) ==
    LET cc == IF FLt(c, Frac(-128, 1)) THEN Frac(-128, 1)
              ELSE IF FLt(Frac(127, 1), c) THEN Frac(127, 1) ELSE c
        twice_dist == 2 * Abs(z * cc.d - cc.n)
    IN  /\ z \in -128..127
        /\ twice_dist <= cc.d
        /\ twice_dist = cc.d => z % 2 = 0

\* the smallest and largest value of token t of the call's input, with 0
token_min_neg(t) == Min2(SeqMinOf(token_of(call.input, t)), 0)

token_max_pos(t) == Max2(SeqMaxOf(token_of(call.input, t)), 0)

\* C11: choose_qparams_per_token_asymmetric returns for every token a zero
\* point that is an integer in [-128, 127], equal to round(clamp(c)) with c
\* the min-anchored candidate when the two errors sum to more than 0 and the
\* max-anchored candidate otherwise.
C11_ZeroPointRule ==
    call.op = "choose_qparams_per_token_asymmetric" =>
        /\ ~IsError(call.ret)
        /\ \A t \in 1..num_tokens_of(call.input) :
              IsRoundOfClamp(call.ret.zero_points.data[t],
                             stated_candidate(token_min_neg(t), token_max_pos(t)))

\* C11 witness: a token with min_val : max_val = -1 : 3 (the zero point does
\* not depend on the unit while the scale is above eps); the min-anchored
\* candidate -64.25 is selected and -64 returned
C11_Witness ==
    /\ call.op = "choose_qparams_per_token_asymmetric"
    /\ ~IsError(call.ret)
    /\ \E t \in 1..num_tokens_of(call.input) :
          /\ token_max_pos(t) = -3 * token_min_neg(t)
          /\ token_min_neg(t) < 0
          /\ min_anchored(token_min_neg(t), token_max_pos(t),
                          stated_asymmetric_scale(token_min_neg(t), token_max_pos(t)))
          /\ call.ret.zero_points.data[t] = -64

\* max(|values of token t|) of the call's input
token_amax(t) ==
    SeqMaxOf([i \in 1..Last(call.input.shape) |-> Abs(token_of(call.input, t)[i])])

IsLegacyChooserCall ==
    /\ call.op = "choose_qparams_per_token"
    /\ call.dtype = "int8"

\* C12 as stated: for the 8-bit signed dtype choose_qparams_per_token returns
\* for every token scale = max(|values|) / 127 and zero_point = 0, whatever
\* the magnitude of the token.
C12_ScaleIsMaxOverQuantMax ==
    IsLegacyChooserCall =>
        /\ ~IsError(call.ret)
        /\ \A t \in 1..num_tokens_of(call.input) :
              /\ FEq(call.ret.scales.data[t], Frac(token_amax(t), 127))
              /\ call.ret.zero_points.data[t] = 0

\* C12 amended: the scale is max(max(|values|), 1e-5) / 127 (the largest
\* magnitude is clamped below by 1e-5 before the division), and the zero
\* point is 0.
C12_ScaleIsClampedMaxOverQuantMax ==
    IsLegacyChooserCall =>
        /\ ~IsError(call.ret)
        /\ \A t \in 1..num_tokens_of(call.input) :
              /\ FEq(call.ret.scales.data[t],
                     Frac(Max2(token_amax(t), 8), 127))
              /\ call.ret.zero_points.data[t] = 0

\* C12 witness: a token below 1e-5 next to a token above it
C12_Witness ==
    /\ IsLegacyChooserCall
    /\ ~IsError(call.ret)
    /\ \E t, u \in 1..num_tokens_of(call.input) :
          /\ token_amax(t) < 8
          /\ FEq(call.ret.scales.data[t], Frac(8, 127))
          /\ token_amax(u) > 8
          /\ FEq(call.ret.scales.data[u], Frac(token_amax(u), 127))

\* C13: a bit-width other than 4 and 8 given to get_group_qparams_symmetric
\* or group_quantize_tensor_symmetric, and a dtype other than 8-bit signed
\* given to a per-token qparam chooser, is reported as an error: the call
\* returns no range-derived value.
C13_UnsupportedIsError ==
    /\ ( /\ call.op \in {"get_group_qparams_symmetric",
                          "group_quantize_tensor_symmetric"}
         /\ call.n_bit \notin {4, 8} )
       => IsError(call.ret)
    /\ ( /\ call.op \in {"choose_qparams_per_token",
                          "choose_qparams_per_token_asymmetric"}
         /\ call.dtype # "int8" )
       => call.ret = UnsupportedDtype

\* C14: for every row length >= 1 and every group_size > 1 the quantize path
\* (group_quantize_tensor_symmetric) and the dequantize path
\* (dequantize_per_channel_group, given one scale per group of the effective
\* size) accept or reject an input of the same shape together, and reject
\* exactly when the effective group size min(group_size, row length) does
\* not divide the row length.
C14_PathsAgreeOnNarrowing ==
    ( /\ call.op = "dequantize_per_channel_group"
      /\ "quantize_failed" \in DOMAIN call
      /\ call.group_size > 1
      /\ call.scales.shape =
           <<call.w_int8.shape[1],
             CeilDiv(Last(call.w_int8.shape),
                     Min2(call.group_size, Last(call.w_int8.shape)))>> )
    => /\ IsError(call.ret) <=> call.quantize_failed
       /\ IsError(call.ret) <=>
            Last(call.w_int8.shape)
                % Min2(call.group_size, Last(call.w_int8.shape)) # 0

-----------------------------------------------------------------------------
(* Properties of the handlers                                              *)

\* the fully-qualified names of the nodes of a module
paths_of(module) ==
    {named_modules(module, <<>>)[i].fqn :
        i \in 1..Len(named_modules(module, <<>>))}

\* the node of a module under a fully-qualified name
node_at(module, fqn) ==
    LET nm == named_modules(module, <<>>)
    IN  nm[CHOOSE i \in 1..Len(nm) : nm[i].fqn = fqn].mod

\* the linear leaves of the module the handler was constructed on
linear_leaves == {p \in paths_of(original) : node_at(original, p).kind = "Linear"}

\* convert_for_runtime has returned on self.mod, which has not been loaded
IsConverted == pc \in {"converted", "created_converted", "converted_created"}

\* the dictionary was created on the floating-point model, which was
\* converted afterwards
IsCreatedThenConverted ==
    \/ pc \in {"created_converted", "loaded"}
    \/ pc = "failed" /\ outcome = "load_state_dict"

\* C2: after WeightOnlyInt8QuantHandler.convert_for_runtime with the name
\* filter F, a linear leaf of the tree (a child of some container, under its
\* own name n) is a quantized leaf if and only if F is "*", or F is "output"
\* and n is "output", or F is "!output" and n is not "output"; a leaf that is
\* not replaced is the linear leaf it was.
C2_ReplacedIffNameMatches ==
    (handler.cls = "WeightOnlyInt8QuantHandler" /\ IsConverted) =>
        \A p \in linear_leaves \ {<<>>} :
            LET passes == \/ handler.node_type = "*"
                          \/ handler.node_type = "output" /\ Last(p) = "output"
                          \/ handler.node_type = "!output" /\ Last(p) # "output"
            IN  /\ passes => node_at(mod, p).kind = "WeightOnlyInt8Linear"
                /\ ~passes => node_at(mod, p) = node_at(original, p)

\* the tree of the example: leaves layer1.linear and output, filter "!output";
\* only layer1.linear is replaced
C2_Witness ==
    /\ handler.cls = "WeightOnlyInt8QuantHandler"
    /\ handler.node_type = "!output"
    /\ pc = "converted"
    /\ paths_of(original) = {<<>>, <<"layer1">>, <<"layer1", "linear">>, <<"output">>}
    /\ linear_leaves = {<<"layer1", "linear">>, <<"output">>}
    /\ node_at(mod, <<"layer1", "linear">>).kind = "WeightOnlyInt8Linear"
    /\ node_at(mod, <<"output">>).kind = "Linear"

\* the linear leaves whose entries create_quantized_state_dict rewrote: a
\* scales entry was added under their name
rewritten_leaves ==
    {p \in linear_leaves : <<p, "scales">> \in DOMAIN state_dict.entries}

\* the linear leaves convert_for_runtime replaced
replaced_leaves ==
    {p \in linear_leaves : node_at(mod, p).kind = "WeightOnlyInt8Linear"}

\* C3: for WeightOnlyInt8QuantHandler, the linear leaves whose weight/scales
\* entries create_quantized_state_dict rewrites are exactly the linear leaves
\* convert_for_runtime replaces.
C3_RewrittenIsReplaced ==
    (handler.cls = "WeightOnlyInt8QuantHandler" /\ IsCreatedThenConverted) =>
        rewritten_leaves = replaced_leaves

\* the leaves of self.mod that a handler put there
converted_leaves ==
    {p \in paths_of(mod) :
        node_at(mod, p).kind \in {"WeightOnlyInt8Linear", "QuantizedGroupEmbedding",
                                  "Int8DynActInt4WeightLinear"}}

\* the names of the entries the dictionary holds for the node p
entries_of(p) == {k[2] : k \in {e \in DOMAIN state_dict.entries : e[1] = p}}

\* C4: for every handler and every converted leaf, the dictionary of
\* create_quantized_state_dict holds for that leaf exactly the entries the
\* converted leaf declares as buffers, each with the declared shape.
C4_DictMatchesConvertedLeaves ==
    IsCreatedThenConverted =>
        \A p \in converted_leaves :
            /\ entries_of(p) = DOMAIN node_at(mod, p).tensors
            /\ \A t \in DOMAIN node_at(mod, p).tensors \cap entries_of(p) :
                  state_dict.entries[<<p, t>>].shape = node_at(mod, p).tensors[t].shape

\* the handler's group_size is a usable one: none, or a positive integer
HasPositiveGroupSize ==
    IF handler.cls = "Int8DynActInt4WeightQuantHandler" THEN handler.group_size > 0
    ELSE handler.group_size = None \/ handler.group_size[1] > 0

\* C15: convert_for_runtime has no failure outcome: for every tree, every
\* handler and every configuration (any filter, any positive group_size,
\* padding allowed or not, in_features divisible by group_size or not) the
\* call completes.
C15_ConvertCompletes ==
    (last = "convert_for_runtime" /\ HasPositiveGroupSize) => pc # "failed"

\* the fully-qualified names of a module in named_modules() order
fqns_in_order(module) ==
    [i \in 1..Len(named_modules(module, <<>>)) |->
        named_modules(module, <<>>)[i].fqn]

QuantizedKinds ==
    {"WeightOnlyInt8Linear", "QuantizedGroupEmbedding", "Int8DynActInt4WeightLinear"}

\* the leaf `new` stands where `old` stood and has its dimensionality
KeepsDimensionality(old, new) ==
    /\ new.tensors.weight.shape = old.tensors.weight.shape
    /\ old.kind = "Linear" =>
          /\ new.in_features = old.in_features
          /\ new.out_features = old.out_features

\* convert_for_runtime was the only call made on the model and returned
IsOnlyConverted == last = "convert_for_runtime" /\ pc = "converted"

\* C16: convert_for_runtime changes no path, no child name and no order of
\* children; every container, and every leaf that is not of the target kind
\* or does not pass the name filter, is unchanged; every replaced leaf has
\* the input/output dimensionality of the leaf it replaces.
C16_StructuralRewrite ==
    IsOnlyConverted =>
        /\ fqns_in_order(mod) = fqns_in_order(original)
        /\ \A p \in paths_of(original) :
              LET old == node_at(original, p)
                  new == node_at(mod, p)
              IN  /\ ~IsLeaf(old) => ~IsLeaf(new)
                  /\ ( /\ IsLeaf(old)
                       /\ \/ old.kind # target_kind(handler)
                          \/ /\ handler.cls = "WeightOnlyInt8QuantHandler"
                             /\ p # <<>>
                             /\ handler.node_type # "*"
                             /\ (handler.node_type = "output") # (Last(p) = "output") )
                     => new = old
                  /\ IsLeaf(old) =>
                        \/ new = old
                        \/ /\ new.kind \in QuantizedKinds
                           /\ KeepsDimensionality(old, new)

\* C16 witness: a converted model with a replaced leaf whose weight is not
\* square, below an inner container, next to a leaf left as it was
C16_Witness ==
    /\ IsOnlyConverted
    /\ \E p, q \in paths_of(original) :
          /\ Len(p) = 2
          /\ node_at(mod, p).kind \in QuantizedKinds
          /\ node_at(mod, p).tensors.weight.shape = <<1, 4>>
          /\ IsLeaf(node_at(original, q))
          /\ node_at(mod, q) = node_at(original, q)

\* a weight-quantization entry point was called on a weight that holds a NaN
\* and that it accepts when the NaN is replaced by a number
IsNaNCall ==
    /\ call.op \in {"dynamically_quantize_per_channel", "get_group_qparams_symmetric",
                    "quantize_per_channel_group"}
    /\ "nan_at" \in DOMAIN call

\* C17: dynamically_quantize_per_channel, get_group_qparams_symmetric and
\* quantize_per_channel_group each fail on an input that holds a NaN: the
\* call ends in a failed precondition and returns no scale and no value.
C17_NaNFailsFast == IsNaNCall => call.ret = AssertError

\* the positions of the elements of largest magnitude of group g of the
\* weight group_quantize_tensor_symmetric was called on
largest_of_group(g, gs) ==
    {i \in ((g - 1) * gs + 1)..(g * gs) :
        Abs(call.w.data[i]) = max_abs_of(group_of(call.w.data, g, gs))}

\* C20: group_quantize_tensor_symmetric clamps to the range
\* [-(2^(n_bit-1)), 2^(n_bit-1)-1] of the n_bit it was called with, the range
\* the scales were derived from: every value it returns lies in that range,
\* and the element of largest magnitude of a group that is not all zero is
\* one of its two ends.
C20_ClampRangeIsScaleRange ==
    (call.op = "group_quantize_tensor_symmetric" /\ ~IsError(call.ret)) =>
        LET gs == Min2(call.group_size, Last(call.w.shape))
            min_int == -Pow2(call.n_bit - 1)
            max_int == Pow2(call.n_bit - 1) - 1
        IN  /\ \A i \in 1..Len(call.w.data) :
                  call.ret.w_int8.data[i] \in min_int..max_int
            /\ \A g \in 1..(Len(call.w.data) \div gs) :
                  max_abs_of(group_of(call.w.data, g, gs)) > 0 =>
                      \A i \in largest_of_group(g, gs) :
                          call.ret.w_int8.data[i] \in {min_int, max_int}

\* what create_quantized_state_dict gives on the floating-point model
dict_of_original == create_quantized_state_dict(handler, original)

\* the conditions under which create_quantized_state_dict is to fail: a
\* bitwidth other than 4 and 8, or for the int4 handler (with a group size
\* that is a positive number) a linear leaf whose in_features it does not divide
MustFailToCreate ==
    IF handler.cls = "Int8DynActInt4WeightQuantHandler"
    THEN /\ handler.group_size > 0
         /\ \E p \in linear_leaves :
               node_at(original, p).in_features % handler.group_size # 0
    ELSE handler.bitwidth \notin {4, 8}

\* C18: quantized_model creates the dictionary from the floating-point
\* model, then converts, then loads; when create_quantized_state_dict fails
\* (as it does on an unsupported bitwidth and on in_features not divisible by
\* the group size) its error is the outcome of the call, no leaf is replaced
\* and no parameter is changed.
C18_CreateFirstAndFailureChangesNothing ==
    last = "quantized_model" =>
        /\ MustFailToCreate => IsError(dict_of_original)
        /\ IsError(dict_of_original) =>
              /\ pc = "failed"
              /\ outcome = dict_of_original.error
              /\ mod = original
              /\ state_dict = NoStateDict
        /\ ~IsError(dict_of_original) =>
              /\ state_dict = [created |-> TRUE, entries |-> dict_of_original.entries]
              /\ paths_of(mod) = paths_of(original)
              /\ pc = "loaded" =>
                    mod = with_loaded(convert_for_runtime(handler, original).module,
                                      <<>>,
                                      load_state_dict(
                                          convert_for_runtime(handler, original).module,
                                          dict_of_original.entries).copied,
                                      dict_of_original.entries)

\* C18 witness: quantized_model of the int4 handler failed on a model with
\* two linear leaves, the first one convertible and the second one with a bias
C18_Witness ==
    /\ last = "quantized_model"
    /\ handler.cls = "Int8DynActInt4WeightQuantHandler"
    /\ handler.group_size > 1
    /\ pc = "failed"
    /\ mod = original
    /\ convert_for_runtime(handler, original).module # original
    /\ \E p, q \in linear_leaves :
          /\ "bias" \notin DOMAIN node_at(original, p).tensors
          /\ node_at(original, p).in_features % handler.group_size = 0
          /\ "bias" \in DOMAIN node_at(original, q).tensors

\* convert_for_runtime has returned on self.mod, loaded since or not
IsAlreadyConverted == IsConverted \/ pc = "loaded"

\* C19: convert_for_runtime applied to an already-converted tree returns,
\* replaces no leaf and leaves every node, the quantized leaves and their
\* buffers included, as it was.
C19_ConvertIdempotent ==
    IsAlreadyConverted =>
        convert_for_runtime(handler, mod) = [module |-> mod, error |-> "none"]

\* C19 witness: convert_for_runtime was called again on a converted and
\* loaded model, one of whose quantized leaves holds a loaded weight
C19_Witness ==
    /\ last = "convert_for_runtime"
    /\ pc = "loaded"
    /\ \E p \in converted_leaves : node_at(mod, p).tensors.weight.data # <<>>

\* C21: the Meta implementation of a per-token qparam chooser rejects the
\* dtypes the real implementation rejects and otherwise returns scales and
\* zero points of the shape the real one returns, (M1, ..., Mn, 1).
C21_MetaAgreesWithReal ==
    "meta" \in DOMAIN call =>
        /\ IsError(call.meta) <=> IsError(call.ret)
        /\ (~IsError(call.meta) /\ ~IsError(call.ret)) =>
              /\ call.ret.scales.shape = keepdim_shape(call.input.shape)
              /\ call.meta.scales.shape = call.ret.scales.shape
              /\ call.meta.zero_points.shape = call.ret.zero_points.shape

====
